---------------------------- MODULE Spec2Model ----------------------------
(***************************************************************************)
(* A model of the pdf-info-scraper artifact pipeline (src/helpers.py,      *)
(* src/classes.py, src/main.py).                                           *)
(*                                                                         *)
(* Texts are sequences of one-character strings.  Page coordinates are     *)
(* integers counting quarter units (q stands for the float q/4), so that   *)
(* Python's round() has something to round.  Colour channels are integers  *)
(* counting hundredths (20 stands for 0.2).                                *)
(***************************************************************************)
EXTENDS Integers, Sequences, FiniteSets, TLC

(***************************************************************************)
(* Bounds of the explored inputs.                                          *)
(***************************************************************************)
MaxPages == 2
MaxChars == 2
MaxRects == 2
MaxDim == 2
MaxPayload == 4
MaxDocs == 2
MaxWords == 2
MaxPatterns == 2

VARIABLES
    mpc,        \* masked-rectangle extractor: position of the generator
    mPage,      \* the page of `for page in pdf.pages` being scanned
    mRectIdx,   \* how many rectangles of mPage the inner loop has taken
    mGen,       \* the generator's locals and the artifacts it yielded
    wpc,        \* white-text extractor: position of the generator
    wDoc,       \* the document it reads: pages, each a sequence of characters
    wPageIdx,   \* the page of `for page in pdf.pages`
    wCharIdx,   \* how many characters of that page the inner loop has taken
    wGen,       \* the generator's locals and the artifacts it yielded
    pdf_date,   \* parse_pdf_date: its argument
    dateParts,  \* the fields pdf_date was written from, when it is a full date
    dateResult, \* what parse_pdf_date returned or raised
    image,      \* _extract_image_data_from_pdf_image: its argument
    decoded,    \* what it returned or raised
    pdf_files,  \* config.pdf_files: the documents of the batch, in input order
    do_regex,   \* config.do_execute_regex
    workers,    \* per document: where its run_in_thread / process_pdf stands
    outputs,    \* the per-document output files written, in the order written
    results,    \* what process_all_pdfs returned
    PATTERNS,   \* the pattern registry, loaded once: category names in order
    pii_text,   \* extract_pii: its argument
    pii_pairs   \* the pairs it yielded

maskedVars == <<mpc, mPage, mRectIdx, mGen>>
whiteVars == <<wpc, wDoc, wPageIdx, wCharIdx, wGen>>
dateVars == <<pdf_date, dateParts, dateResult>>
codecVars == <<image, decoded>>
batchVars == <<pdf_files, do_regex, workers, outputs, results>>
piiVars == <<PATTERNS, pii_text, pii_pairs>>
vars == <<maskedVars, whiteVars, dateVars, codecVars, batchVars, piiVars>>

notMasked == <<whiteVars, dateVars, codecVars, batchVars, piiVars>>
notWhite == <<maskedVars, dateVars, codecVars, batchVars, piiVars>>
notDate == <<maskedVars, whiteVars, codecVars, batchVars, piiVars>>
notCodec == <<maskedVars, whiteVars, dateVars, batchVars, piiVars>>
notBatch == <<maskedVars, whiteVars, dateVars, codecVars, piiVars>>
notPii == <<maskedVars, whiteVars, dateVars, codecVars, batchVars>>

NoPage == [page_number |-> 0, chars |-> <<>>, rects |-> <<>>]

SeqsUpTo(S, n) == UNION {[1..k -> S] : k \in 0..n}

(***************************************************************************)
(* Python's round(): to the nearest integer, a tie going to the even one.  *)
(***************************************************************************)
Round(q) ==
    LET k == q \div 4
        r == q % 4
    IN  IF r < 2 THEN k
        ELSE IF r > 2 THEN k + 1
        ELSE IF k % 2 = 0 THEN k ELSE k + 1

(***************************************************************************)
(* The page primitives the PDF-structure provider hands out.               *)
(***************************************************************************)
BoxA == [x0 |-> 1, y0 |-> 2, x1 |-> 42, y1 |-> 8]
BoxB == [x0 |-> 0, y0 |-> 12, x1 |-> 40, y1 |-> 20]
RectBoxes == {BoxA, BoxB}

\* non_stroking_color: a tuple of channels, a single number, or no entry.
ColorTuple(chans) == [kind |-> "tuple", chans |-> chans]
ColorNumber(c) == [kind |-> "number", chans |-> <<c>>]
ColorMissing == [kind |-> "missing", chans |-> <<>>]

RectPaints ==
    { [fill |-> "True", non_stroking_color |-> ColorTuple(<<0, 20>>)],
      [fill |-> "True", non_stroking_color |-> ColorNumber(20)],
      [fill |-> "True", non_stroking_color |-> ColorTuple(<<0, 21>>)],
      [fill |-> "False", non_stroking_color |-> ColorTuple(<<0, 0>>)],
      [fill |-> "None", non_stroking_color |-> ColorNumber(0)],
      [fill |-> "True", non_stroking_color |-> ColorMissing] }

Rects ==
    { [x0 |-> b.x0, y0 |-> b.y0, x1 |-> b.x1, y1 |-> b.y1,
       fill |-> p.fill, non_stroking_color |-> p.non_stroking_color] :
      b \in RectBoxes, p \in RectPaints }

Chars ==
    { [text |-> "R", x0 |-> 2, y0 |-> 1, x1 |-> 41, y1 |-> 9],
      [text |-> "X", x0 |-> 2, y0 |-> 1, x1 |-> 43, y1 |-> 9],
      [text |-> "B", x0 |-> 4, y0 |-> 13, x1 |-> 12, y1 |-> 18] }

MaskedPages ==
    { [page_number |-> n, chars |-> cs, rects |-> rs] :
      n \in 1..MaxPages, cs \in SeqsUpTo(Chars, MaxChars),
      rs \in SeqsUpTo(Rects, MaxRects) }

(***************************************************************************)
(* extract_text_inside_filled_rectangles                                   *)
(***************************************************************************)
Artifact(page_number, text, artifact_type) ==
    [page_number |-> page_number, text |-> text, artifact_type |-> artifact_type]

IsFilled(rect) == rect.fill = "True"

IsDark(rect) ==
    \A i \in 1..Len(rect.non_stroking_color.chans) :
        /\ 0 <= rect.non_stroking_color.chans[i]
        /\ rect.non_stroking_color.chans[i] <= 20

InsideUnrounded(char, rect) ==
    /\ char.x0 >= rect.x0 /\ char.x1 <= rect.x1
    /\ char.y0 >= rect.y0 /\ char.y1 <= rect.y1

Inside(char, rect) ==
    /\ Round(char.x0) >= Round(rect.x0) /\ Round(char.x1) <= Round(rect.x1)
    /\ Round(char.y0) >= Round(rect.y0) /\ Round(char.y1) <= Round(rect.y1)

RECURSIVE CapturedChars(_, _)
CapturedChars(chars, rect) ==
    IF chars = <<>> THEN <<>>
    ELSE (IF Inside(Head(chars), rect) THEN <<Head(chars).text>> ELSE <<>>)
         \o CapturedChars(Tail(chars), rect)

\* The generator's state at module level of the function body.
GenStart == [captured_text |-> <<>>, last_y_offset |-> -1, yielded |-> <<>>]

\* `if captured_text: yield ...; captured_text = ""`
Flush(page, g) ==
    IF g.captured_text # <<>>
    THEN [g EXCEPT !.yielded = Append(@, Artifact(page.page_number,
                                                  g.captured_text,
                                                  "FILLED_RECTANGLE")),
                   !.captured_text = <<>>]
    ELSE g

ScanRectOneBand(page, rect, g) ==
    IF ~IsFilled(rect) THEN g
    ELSE IF ~IsDark(rect) THEN g
    ELSE [g EXCEPT !.captured_text = @ \o CapturedChars(page.chars, rect),
                   !.last_y_offset = Round(rect.y0)]

ScanRectOnce(page, rect, g) ==
    LET y0 == Round(rect.y0)
        g1 == IF g.last_y_offset # y0
              THEN [Flush(page, g) EXCEPT !.last_y_offset = y0]
              ELSE g
        seen == {g1.captured_text[n] : n \in 1..Len(g1.captured_text)}
    IN  IF ~IsFilled(rect) THEN g1
        ELSE IF ~IsDark(rect) THEN g1
        ELSE [g1 EXCEPT !.captured_text =
                 @ \o SelectSeq(CapturedChars(page.chars, rect),
                                LAMBDA t : t \notin seen)]

\* One pass of `for rect in page.objects.get("rect", [])`.
ScanRect(page, rect, g) ==
    LET y0 == Round(rect.y0)
        g1 == IF g.last_y_offset # y0
              THEN [Flush(page, g) EXCEPT !.last_y_offset = y0]
              ELSE g
    IN  IF ~IsFilled(rect) THEN g1
        ELSE IF ~IsDark(rect) THEN g1
        ELSE [g1 EXCEPT !.captured_text = @ \o CapturedChars(page.chars, rect)]

\* `for page in pdf.pages:` takes the next page and clears captured_text.
MaskedNextPage ==
    /\ mpc = "pages"
    /\ mPage.page_number < MaxPages
    /\ \E p \in MaskedPages :
        /\ p.page_number = mPage.page_number + 1
        /\ mPage' = p
    /\ mRectIdx' = 0
    /\ mGen' = [mGen EXCEPT !.captured_text = <<>>]
    /\ mpc' = "rects"
    /\ UNCHANGED notMasked

MaskedRect ==
    /\ mpc = "rects"
    /\ mRectIdx < Len(mPage.rects)
    /\ mRectIdx' = mRectIdx + 1
    /\ mGen' = ScanRect(mPage, mPage.rects[mRectIdx + 1], mGen)
    /\ UNCHANGED <<mpc, mPage>>
    /\ UNCHANGED notMasked

\* "flush last bit of captured text" at the end of the page
MaskedEndPage ==
    /\ mpc = "rects"
    /\ mRectIdx = Len(mPage.rects)
    /\ mGen' = Flush(mPage, mGen)
    /\ mpc' = "page_done"
    /\ UNCHANGED <<mPage, mRectIdx>>
    /\ UNCHANGED notMasked

\* The loop moves on: the caller has consumed the page's artifacts, and the
\* page's primitives are not looked at again.
MaskedAdvance ==
    /\ mpc = "page_done"
    /\ mpc' = "pages"
    /\ mPage' = [NoPage EXCEPT !.page_number = mPage.page_number]
    /\ mRectIdx' = 0
    /\ mGen' = [mGen EXCEPT !.yielded = <<>>]
    /\ UNCHANGED notMasked

\* pdf.pages is exhausted: the generator returns
MaskedReturn ==
    /\ mpc = "pages"
    /\ mpc' = "returned"
    /\ UNCHANGED <<mPage, mRectIdx, mGen>>
    /\ UNCHANGED notMasked

\* The extractor is not part of the specification at hand.
IdleMasked ==
    /\ mpc = "idle"
    /\ mPage = NoPage
    /\ mRectIdx = 0
    /\ mGen = GenStart

InitMasked ==
    /\ mpc = "pages"
    /\ mPage = NoPage
    /\ mRectIdx = 0
    /\ mGen = GenStart

NextMasked ==
    \/ MaskedNextPage
    \/ MaskedRect
    \/ MaskedEndPage
    \/ MaskedAdvance
    \/ MaskedReturn


(***************************************************************************)
(* extract_white_text_from_pdf                                             *)
(***************************************************************************)
WhiteChars ==
    { [text |-> "S", non_stroking_color |-> <<100, 100, 100>>],
      [text |-> "E", non_stroking_color |-> <<80, 100, 80>>],
      [text |-> "x", non_stroking_color |-> <<100, 79, 100>>] }

WhiteDocs == SeqsUpTo(SeqsUpTo(WhiteChars, MaxChars), MaxPages)

\* all(0.8 <= c <= 1.0 for c in obj.get('non_stroking_color', []))
IsWhite(obj) ==
    \A i \in 1..Len(obj.non_stroking_color) :
        /\ 80 <= obj.non_stroking_color[i]
        /\ obj.non_stroking_color[i] <= 100

WhiteGenStart ==
    [captured_white_text |-> <<>>, last_page_number |-> -1, yielded |-> <<>>]

ScanCharKeepBuffer(page_number, obj, g) ==
    IF IsWhite(obj)
    THEN [g EXCEPT !.captured_white_text = Append(@, obj.text)]
    ELSE IF g.captured_white_text # <<>>
    THEN [g EXCEPT !.yielded = Append(@, Artifact(page_number,
                                                  g.captured_white_text,
                                                  "WHITE_TEXT"))]
    ELSE g

\* One pass of `for obj in page.objects.get("char", [])`.
ScanChar(page_number, obj, g) ==
    IF IsWhite(obj)
    THEN [g EXCEPT !.captured_white_text = Append(@, obj.text)]
    ELSE IF g.captured_white_text # <<>>
    THEN [g EXCEPT !.yielded = Append(@, Artifact(page_number,
                                                  g.captured_white_text,
                                                  "WHITE_TEXT")),
                   !.captured_white_text = <<>>]
    ELSE g

WhiteNextPage ==
    /\ wpc = "pages"
    /\ wPageIdx < Len(wDoc)
    /\ wPageIdx' = wPageIdx + 1
    /\ wCharIdx' = 0
    /\ wGen' = [wGen EXCEPT !.last_page_number = wPageIdx + 1]
    /\ wpc' = "chars"
    /\ UNCHANGED wDoc
    /\ UNCHANGED notWhite

WhiteChar ==
    /\ wpc = "chars"
    /\ wCharIdx < Len(wDoc[wPageIdx])
    /\ wCharIdx' = wCharIdx + 1
    /\ wGen' = ScanChar(wPageIdx, wDoc[wPageIdx][wCharIdx + 1], wGen)
    /\ UNCHANGED <<wpc, wDoc, wPageIdx>>
    /\ UNCHANGED notWhite

WhiteEndPage ==
    /\ wpc = "chars"
    /\ wCharIdx = Len(wDoc[wPageIdx])
    /\ wpc' = "pages"
    /\ UNCHANGED <<wDoc, wPageIdx, wCharIdx, wGen>>
    /\ UNCHANGED notWhite

\* pdf.pages is exhausted: the function body ends, and the generator with it
WhiteReturn ==
    /\ wpc = "pages"
    /\ wPageIdx = Len(wDoc)
    /\ wpc' = "returned"
    /\ UNCHANGED <<wDoc, wPageIdx, wCharIdx, wGen>>
    /\ UNCHANGED notWhite

IdleWhite ==
    /\ wpc = "idle"
    /\ wDoc = <<>>
    /\ wPageIdx = 0
    /\ wCharIdx = 0
    /\ wGen = WhiteGenStart

InitWhite ==
    /\ wpc = "pages"
    /\ wDoc \in WhiteDocs
    /\ wPageIdx = 0
    /\ wCharIdx = 0
    /\ wGen = WhiteGenStart

NextWhite ==
    \/ WhiteNextPage
    \/ WhiteChar
    \/ WhiteEndPage
    \/ WhiteReturn

(***************************************************************************)
(* parse_pdf_date.  A string is a sequence of one-character strings.       *)
(***************************************************************************)
DigitChars == <<"0", "1", "2", "3", "4", "5", "6", "7", "8", "9">>
Digits == {DigitChars[i] : i \in 1..10}
DigitVal(c) == (CHOOSE i \in 1..10 : DigitChars[i] = c) - 1

\* The characters of the class [+-Z]: the range from "+" to "Z".
TzSignClass ==
    {"+", ",", "-", ".", "/", ":", ";", "<", "=", ">", "?", "@"} \cup Digits
    \cup {"A", "B", "C", "D", "E", "F", "G", "H", "I", "J", "K", "L", "M",
          "N", "O", "P", "Q", "R", "S", "T", "U", "V", "W", "X", "Y", "Z"}

Pad2(n) == <<DigitChars[((n \div 10) % 10) + 1], DigitChars[(n % 10) + 1]>>
Pad4(n) == Pad2(n \div 100) \o Pad2(n % 100)

\* The date strings a document's metadata may hold: the fields, written out.
DatePrefixes == {<<>>, <<"D", ":">>}
DateYears == {2023, 2024}
DateMonths == {2, 6, 13}
DateDays == {15, 29, 30}
DateHours == {12, 24}
DateMinutes == {0, 59}
DateSeconds == {0, 59}
DateSigns == {<<"+">>, <<"-">>, <<"Z">>, <<>>}
DateTzHours == {2, 20, 24}
DateTzMinutes == {0, 30}
\* the timezone written as hh'mm', hhmm, hh'mm, or left out
DateTzStyles == {"quoted", "plain", "half", "none"}

DateFields ==
    [prefix : DatePrefixes, year : DateYears, month : DateMonths,
     day : DateDays, hour : DateHours, minute : DateMinutes,
     second : DateSeconds, sign : DateSigns, tz_hour : DateTzHours,
     tz_minute : DateTzMinutes, style : DateTzStyles]

WriteTz(f) ==
    CASE f.style = "quoted" ->
            Pad2(f.tz_hour) \o <<"'">> \o Pad2(f.tz_minute) \o <<"'">>
      [] f.style = "plain" -> Pad2(f.tz_hour) \o Pad2(f.tz_minute)
      [] f.style = "half" -> Pad2(f.tz_hour) \o <<"'">> \o Pad2(f.tz_minute)
      [] OTHER -> <<>>

WriteDate(f) ==
    f.prefix \o Pad4(f.year) \o Pad2(f.month) \o Pad2(f.day) \o Pad2(f.hour)
    \o Pad2(f.minute) \o Pad2(f.second) \o f.sign \o WriteTz(f)

\* Strings that are no full date: cut short, or not a date at all.
Prefixes(str) == {SubSeq(str, 1, k) : k \in 0..Len(str)}

OtherDateStrings ==
    Prefixes(<<"D", ":", "2", "0", "2", "3", "0", "6", "1", "5", "1", "2",
               "0", "0", "0", "0", "+", "0", "2", "'", "0", "0", "'">>)
    \cup Prefixes(<<"2", "0", "2", "4", "0", "2", "2", "9", "2", "3", "5", "9",
                    "5", "9", "'", "3", "0", "'">>)
    \cup { <<"n", "o", "t", "-", "a", "-", "d", "a", "t", "e">>,
           <<"D", ":", "n", "o", "t", "-", "a", "-", "d", "a", "t", "e">>,
           <<"D", "2", "0", "2", "3">>,
           <<"0", "0", "0", "0", "0", "6", "1", "5">>,
           <<"2", "0", "2", "3", "0", "6", "1", "5", "1", "2", "0", "0", "0",
             "0", "z">>,
           <<"x", "2", "0", "2", "3", "0", "6", "1", "5">> }

NoFields == [style |-> "not a full date"]

\* `if pdf_date.startswith("D:"): pdf_date = pdf_date[2:]`
StripPrefix(str) ==
    IF Len(str) >= 2 /\ str[1] = "D" /\ str[2] = ":"
    THEN SubSeq(str, 3, Len(str))
    ELSE str

\* An optional group (\d{2})? at position pos: the two digits, or <<>> when
\* the group takes no part in the match.
TwoDigitsAt(str, pos) ==
    IF pos + 1 <= Len(str) /\ str[pos] \in Digits /\ str[pos + 1] \in Digits
    THEN <<str[pos], str[pos + 1]>>
    ELSE <<>>

OneOfAt(str, pos, class) ==
    IF pos <= Len(str) /\ str[pos] \in class THEN <<str[pos]>> ELSE <<>>

\* re.match(pattern, pdf_date): every group after the year is optional and of
\* fixed width, so the greedy match takes each group that fits, left to right.
MatchPatternAnywhere(str) ==
    IF \E i \in 1..Len(str) : str[i] \in Digits
    THEN [matched |-> TRUE, year |-> <<"2", "0", "2", "3">>, month |-> <<>>,
          day |-> <<>>, hour |-> <<>>, minute |-> <<>>, second |-> <<>>,
          tz_sign |-> <<>>, tz_hour |-> <<>>, tz_minute |-> <<>>]
    ELSE [matched |-> FALSE]

\* `count` optional two-digit groups, one after another from pos on
RECURSIVE TwoDigitGroups(_, _, _)
TwoDigitGroups(str, pos, count) ==
    IF count = 0 THEN <<>>
    ELSE <<TwoDigitsAt(str, pos)>>
         \o TwoDigitGroups(str, pos + Len(TwoDigitsAt(str, pos)), count - 1)

\* tz_minute, after an optional apostrophe
MatchTzMinute(str, pos, tz_sign, tz_hour) ==
    [tz_sign |-> tz_sign, tz_hour |-> tz_hour,
     tz_minute |-> TwoDigitsAt(str, pos + Len(OneOfAt(str, pos, {"'"})))]

MatchTzHour(str, pos, tz_sign) ==
    MatchTzMinute(str, pos + Len(TwoDigitsAt(str, pos)), tz_sign,
                  TwoDigitsAt(str, pos))

\* the groups tz_sign, tz_hour, tz_minute from pos on
MatchTz(str, pos) ==
    MatchTzHour(str, pos + Len(OneOfAt(str, pos, TzSignClass)),
                OneOfAt(str, pos, TzSignClass))

MatchGroups(str, groups) ==
    [matched |-> TRUE, year |-> SubSeq(str, 1, 4), month |-> groups[1],
     day |-> groups[2], hour |-> groups[3], minute |-> groups[4],
     second |-> groups[5]]
    @@ MatchTz(str, 5 + Len(groups[1]) + Len(groups[2]) + Len(groups[3])
                      + Len(groups[4]) + Len(groups[5]))

MatchPattern(str) ==
    IF ~(Len(str) >= 4 /\ \A i \in 1..4 : str[i] \in Digits)
    THEN [matched |-> FALSE]
    ELSE MatchGroups(str, TwoDigitGroups(str, 5, 5))

\* match.groupdict(default='00')
GroupOr00(group) == IF group = <<>> THEN <<"0", "0">> ELSE group

RECURSIVE ToInt(_)
ToInt(digits) ==
    IF digits = <<>> THEN 0
    ELSE 10 * ToInt(SubSeq(digits, 1, Len(digits) - 1))
         + DigitVal(digits[Len(digits)])

IsLeap(year) == (year % 4 = 0 /\ year % 100 # 0) \/ year % 400 = 0

DaysInMonth(year, month) ==
    IF month = 2 THEN (IF IsLeap(year) THEN 29 ELSE 28)
    ELSE IF month \in {4, 6, 9, 11} THEN 30 ELSE 31

\* what datetime(...) accepts
DatetimeOk(year, month, day, hour, minute, second) ==
    /\ year \in 1..9999
    /\ month \in 1..12
    /\ day \in 1..DaysInMonth(year, month)
    /\ hour \in 0..23
    /\ minute \in 0..59
    /\ second \in 0..59

\* what timezone(delta) accepts: strictly between -24 h and 24 h
MinutesPerDay == 1440
TimezoneOk(offset_minutes) ==
    -MinutesPerDay < offset_minutes /\ offset_minutes < MinutesPerDay

Raised(exc, message) == [kind |-> "raised", exc |-> exc, message |-> message]

\* `raise exc(message) from cause`
RaisedFrom(exc, message, cause) ==
    [kind |-> "raised", exc |-> exc, message |-> message, cause |-> cause]

\* an exception raised while an except block handles `context`
RaisedDuring(exc, message, context) ==
    [kind |-> "raised", exc |-> exc, message |-> message, context |-> context]

\* lines 40-65: the datetime built from the groups of the match
DateFromMatch(stripped, match) ==
    IF ~match.matched
    THEN Raised("ValueError", <<"Invalid PDF date format: ", stripped>>)
    ELSE
      LET year == ToInt(match.year)
          month == ToInt(GroupOr00(match.month))
          day == ToInt(GroupOr00(match.day))
          hour == ToInt(GroupOr00(match.hour))
          minute == ToInt(GroupOr00(match.minute))
          second == ToInt(GroupOr00(match.second))
          tz_sign == GroupOr00(match.tz_sign)
          delta == 60 * ToInt(GroupOr00(match.tz_hour))
                   + ToInt(GroupOr00(match.tz_minute))
          \* `tz_sign is None` never holds: the group defaults to '00'
          offset == IF tz_sign = <<"Z">> THEN 0
                    ELSE IF tz_sign = <<"-">> THEN -delta ELSE delta
      IN  IF ~DatetimeOk(year, month, day, hour, minute, second)
          THEN Raised("ValueError", <<"datetime">>)
          ELSE IF ~TimezoneOk(offset)
          THEN Raised("ValueError", <<"timezone">>)
          ELSE [kind |-> "datetime", year |-> year, month |-> month,
                day |-> day, hour |-> hour, minute |-> minute,
                second |-> second, utcoffset |-> offset]

parse_pdf_date(str) ==
    IF str = <<>> THEN [kind |-> "None"]
    ELSE DateFromMatch(StripPrefix(str), MatchPattern(StripPrefix(str)))

ParsePdfDate ==
    /\ dateResult.kind = "pending"
    /\ dateResult' = parse_pdf_date(pdf_date)
    /\ UNCHANGED <<pdf_date, dateParts>>
    /\ UNCHANGED notDate

IdleDate ==
    /\ pdf_date = <<>>
    /\ dateParts = NoFields
    /\ dateResult = [kind |-> "idle"]

InitDate ==
    /\ \/ \E f \in DateFields : dateParts = f /\ pdf_date = WriteDate(f)
       \/ \E str \in OtherDateStrings : dateParts = NoFields /\ pdf_date = str
    /\ dateResult = [kind |-> "pending"]

NextDate == ParsePdfDate

(***************************************************************************)
(* _extract_image_data_from_pdf_image.  The stream's Filter is the set of  *)
(* filter names str(filter_) contains; device_gray is the outcome of       *)
(* `"DeviceGray" in resolve(color_space)`; openable tells whether          *)
(* Image.open recognises the bytes.                                        *)
(***************************************************************************)
ImageFilters ==
    { {"DCTDecode"}, {"FlateDecode"}, {"JPXDecode"}, {},
      {"FlateDecode", "DCTDecode"} }

PayloadBytes == {0, 255}

ImageStreams ==
    [Filter : ImageFilters, device_gray : BOOLEAN, Width : 1..MaxDim,
     Height : 1..MaxDim, data : SeqsUpTo(PayloadBytes, MaxPayload),
     openable : BOOLEAN]

NoImage ==
    [Filter |-> {}, device_gray |-> FALSE, Width |-> 1, Height |-> 1,
     data |-> <<>>, openable |-> FALSE]

Zeros(n) == [i \in 1..n |-> 0]

PadOnly(data, expected_len) ==
    IF Len(data) < expected_len
    THEN data \o Zeros(expected_len - Len(data))
    ELSE data

\* lines 167-172: pad with zeros when too short, truncate when too long
PadOrTruncate(data, expected_len) ==
    IF Len(data) < expected_len
    THEN data \o Zeros(expected_len - Len(data))
    ELSE IF Len(data) > expected_len
    THEN SubSeq(data, 1, expected_len)
    ELSE data

\* Image.open(io.BytesIO(data))
ImageOpen(img) ==
    IF img.openable
    THEN [kind |-> "image", how |-> "opened", data |-> img.data]
    ELSE Raised("UnidentifiedImageError", <<"cannot identify image file">>)

\* Image.frombytes(mode, (width, height), data)
ImageFromBytes(mode, width, height, data) ==
    LET need == IF mode = "L" THEN width * height ELSE width * height * 3
    IN  IF Len(data) < need
        THEN Raised("ValueError", <<"not enough image data">>)
        ELSE [kind |-> "image", how |-> "frombytes", mode |-> mode,
              width |-> width, height |-> height, data |-> data]

extract_image_data_from_pdf_image(img) ==
    IF "DCTDecode" \in img.Filter THEN ImageOpen(img)
    ELSE IF "FlateDecode" \in img.Filter
    THEN LET mode == IF img.device_gray THEN "L" ELSE "RGB"
             expected_len == IF mode = "L" THEN img.Width * img.Height
                             ELSE img.Width * img.Height * 3
         IN  ImageFromBytes(mode, img.Width, img.Height,
                            PadOrTruncate(img.data, expected_len))
    ELSE ImageOpen(img)

ExtractImageData ==
    /\ decoded.kind = "pending"
    /\ decoded' = extract_image_data_from_pdf_image(image)
    /\ UNCHANGED image
    /\ UNCHANGED notCodec

IdleCodec ==
    /\ image = NoImage
    /\ decoded = [kind |-> "idle"]

InitCodec ==
    /\ image \in ImageStreams
    /\ decoded = [kind |-> "pending"]

NextCodec == ExtractImageData

(***************************************************************************)
(* extract_pii and the pattern registry.  A text handed to the matcher is  *)
(* a sequence of words.  PATTERNS is built from regexes.re_objects, which  *)
(* is not among the source files: the five categories and their order are  *)
(* the ones the specification gives, the registry being configurable the   *)
(* three further categories stand for patterns with an optional capture    *)
(* group, with an empty alternative, and with two optional groups.  Match  *)
(* says what a category's pattern matches in a word and what its capture   *)
(* groups hold there.                                                      *)
(***************************************************************************)
DefaultPatterns == <<"email", "phone", "postcode", "national_id", "address">>

Categories ==
    {"email", "phone", "postcode", "national_id", "address",
     "reference", "initials", "flags"}

PiiWords == {"john@example.com", "0612345678", "hello", "1234AB", "34-a"}

NoMatch == [found |-> FALSE]

Found(whole, groups) == [found |-> TRUE, whole |-> whole, groups |-> groups]

Match(category, word) ==
    CASE category = "email" /\ word \in {"john@example.com", "jane@example.org"}
            -> Found(word, <<>>)
      [] category = "phone" /\ word = "0612345678"
            -> Found(word, <<"0", "", "8">>)
      [] category = "postcode" /\ word = "1234AB" -> Found(word, <<word>>)
      [] category = "national_id" /\ word = "0612345678"
            -> Found("061234567", <<>>)
      \* \d+(-[a-z])?
      [] category = "reference" /\ word = "0612345678" -> Found(word, <<"">>)
      [] category = "reference" /\ word = "1234AB" -> Found("1234", <<"">>)
      [] category = "reference" /\ word = "34-a" -> Found(word, <<"-a">>)
      \* [A-Z]+|
      [] category = "initials" /\ word = "1234AB" -> Found("AB", <<>>)
      [] category = "initials" /\ word # "1234AB" -> Found("", <<>>)
      \* (a)?(b)?
      [] category = "flags" /\ word = "34-a" -> Found("a", <<"a", "">>)
      [] category = "flags" /\ word # "34-a" -> Found("", <<"", "">>)
      [] OTHER -> NoMatch

\* what re.findall gives for one match: the match when the pattern has no
\* group, the group when it has one, the tuple of the groups otherwise
FindAllItem(m) ==
    IF Len(m.groups) = 0 THEN [kind |-> "str", value |-> m.whole]
    ELSE IF Len(m.groups) = 1 THEN [kind |-> "str", value |-> m.groups[1]]
    ELSE [kind |-> "tuple", value |-> m.groups]

\* re.findall(value, text): an item per match, in the order they occur
RECURSIVE FindAll(_, _)
FindAll(category, text) ==
    IF text = <<>> THEN <<>>
    ELSE (IF Match(category, Head(text)).found
          THEN <<FindAllItem(Match(category, Head(text)))>>
          ELSE <<>>)
         \o FindAll(category, Tail(text))

\* `if match:` an empty string is false, a tuple of groups is not
Truthy(item) == item.kind = "tuple" \/ item.value # ""

NonEmptyMatches(category, matches) ==
    LET kept == SelectSeq(matches, Truthy)
    IN  [i \in 1..Len(kept) |-> <<category, kept[i]>>]

\* the pairs extract_pii yields for the registry's entries from index k on
RECURSIVE ExtractPiiFrom(_, _)
ExtractPiiFrom(k, text) ==
    IF k > Len(PATTERNS) THEN <<>>
    ELSE NonEmptyMatches(PATTERNS[k], FindAll(PATTERNS[k], text))
         \o ExtractPiiFrom(k + 1, text)

ExtractPiiLastFirst(text) ==
    LET pairs == ExtractPiiFrom(1, text)
    IN  [i \in 1..Len(pairs) |-> pairs[Len(pairs) + 1 - i]]

extract_pii(text) == ExtractPiiFrom(1, text)

ExtractPii ==
    /\ pii_pairs.kind = "pending"
    /\ pii_pairs' = [kind |-> "yielded", pairs |-> extract_pii(pii_text)]
    /\ UNCHANGED <<PATTERNS, pii_text>>
    /\ UNCHANGED notPii

\* the registry as loaded at import, the matcher not called on its own
IdlePii ==
    /\ PATTERNS = DefaultPatterns
    /\ pii_text = <<>>
    /\ pii_pairs = [kind |-> "idle"]

\* registries of up to MaxPatterns categories, each category once
Registries ==
    { registry \in SeqsUpTo(Categories, MaxPatterns) :
        \A a, b \in 1..Len(registry) : a # b => registry[a] # registry[b] }

InitPii ==
    /\ PATTERNS \in Registries
    /\ pii_text \in SeqsUpTo(PiiWords, MaxWords)
    /\ pii_pairs = [kind |-> "pending"]

NextPii == ExtractPii

(***************************************************************************)
(* The documents process_pdf reads.                                        *)
(***************************************************************************)
\* What the rectangle extractor sees on a page: characters and rectangles.
DarkRect(box) ==
    [x0 |-> box.x0, y0 |-> box.y0, x1 |-> box.x1, y1 |-> box.y1,
     fill |-> "True", non_stroking_color |-> ColorTuple(<<0, 20>>)]

CharR == [text |-> "R", x0 |-> 2, y0 |-> 1, x1 |-> 41, y1 |-> 9]
CharX == [text |-> "X", x0 |-> 2, y0 |-> 1, x1 |-> 43, y1 |-> 9]
CharB == [text |-> "B", x0 |-> 4, y0 |-> 13, x1 |-> 12, y1 |-> 18]

PageDrawings ==
    { [chars |-> <<>>, rects |-> <<>>],
      [chars |-> <<CharB, CharX, CharR>>,
       rects |-> <<DarkRect(BoxA), DarkRect(BoxB)>>] }

\* What page.extract_text returns, or that it raises.
PageTexts ==
    { [raises |-> FALSE, words |-> <<>>],
      [raises |-> FALSE,
       words |-> <<"0612345678", "hello", "john@example.com",
                   "jane@example.org">>],
      [raises |-> TRUE, words |-> <<>>] }

\* page.images: each image's stream and the lines the OCR reads in it, each
\* line a sequence of words.
GreyImage ==
    [stream |-> [Filter |-> {"FlateDecode"}, device_gray |-> TRUE,
                 Width |-> 1, Height |-> 1, data |-> <<255>>,
                 openable |-> FALSE],
     ocr |-> << <<"hello", "jane@example.org">>, <<"0612345678">> >>]

JpegImage ==
    [stream |-> [Filter |-> {"DCTDecode"}, device_gray |-> FALSE,
                 Width |-> 1, Height |-> 1, data |-> <<255, 0>>,
                 openable |-> TRUE],
     ocr |-> << <<"john@example.com">> >>]

BlankImage ==
    [stream |-> [Filter |-> {"DCTDecode"}, device_gray |-> FALSE,
                 Width |-> 1, Height |-> 1, data |-> <<0>>,
                 openable |-> TRUE],
     ocr |-> <<>>]

BrokenImage ==
    [stream |-> [Filter |-> {"JPXDecode"}, device_gray |-> FALSE,
                 Width |-> 1, Height |-> 1, data |-> <<0, 0>>,
                 openable |-> FALSE],
     ocr |-> <<>>]

PageImages ==
    { <<>>, <<GreyImage, BlankImage, JpegImage>>, <<BrokenImage>> }

PdfPage(n, drawing, text, images) ==
    [page_number |-> n, chars |-> drawing.chars, rects |-> drawing.rects,
     text |-> text, images |-> images]

PagesOfLength(k) ==
    { pages \in [1..k -> [drawing : PageDrawings, text : PageTexts,
                          images : PageImages]] : TRUE }

NumberPages(raw) ==
    [n \in 1..Len(raw) |-> PdfPage(n, raw[n].drawing, raw[n].text, raw[n].images)]

\* pdf.metadata
ValidDateString ==
    <<"D", ":", "2", "0", "2", "3", "0", "6", "1", "5", "1", "2", "0", "0",
      "0", "0", "+", "0", "2", "'", "0", "0", "'">>
MalformedDateString == <<"n", "o", "t", "-", "a", "-", "d", "a", "t", "e">>

Metadatas ==
    { [Producer |-> "writer"],
      [Author |-> "alice", CreationDate |-> ValidDateString,
       ModDate |-> MalformedDateString],
      [Author |-> "bob", CreationDate |-> MalformedDateString,
       ModDate |-> ValidDateString] }

Path(dir, stem) == [dir |-> dir, stem |-> stem]

\* every document of up to MaxPages pages, at one path
PdfDocs ==
    { [path |-> Path("in", "doc"), metadata |-> m, pages |-> NumberPages(raw)] :
      m \in Metadatas, raw \in UNION {PagesOfLength(k) : k \in 0..MaxPages} }

(***************************************************************************)
(* The extractors as process_pdf consumes them: each generator run to its  *)
(* end over a whole document.                                              *)
(***************************************************************************)
RECURSIVE ScanRects(_, _, _)
ScanRects(page, rects, g) ==
    IF rects = <<>> THEN g
    ELSE ScanRects(page, Tail(rects), ScanRect(page, Head(rects), g))

\* one pass of `for page in pdf.pages:` with its closing flush
ScanPage(page, g) ==
    Flush(page, ScanRects(page, page.rects, [g EXCEPT !.captured_text = <<>>]))

RECURSIVE ScanPages(_, _)
ScanPages(pages, g) ==
    IF pages = <<>> THEN g
    ELSE ScanPages(Tail(pages), ScanPage(Head(pages), g))

extract_text_inside_filled_rectangles(pdf) == ScanPages(pdf.pages, GenStart).yielded

from_extracted_artifact(extracted_artifact, matched_data, matched_data_type) ==
    [page_number |-> extracted_artifact.page_number,
     text |-> extracted_artifact.text,
     artifact_type |-> extracted_artifact.artifact_type,
     matched_data |-> matched_data,
     matched_data_type |-> matched_data_type]

MaskedFindingUntyped(artifact) ==
    from_extracted_artifact(artifact, artifact.text, "text")

MaskedFinding(artifact) ==
    from_extracted_artifact(artifact, artifact.text, "filled_rectangle")

MaskedLoopCarried(pdf) ==
    LET carried == IF outputs = <<>> THEN <<>>
                   ELSE <<Artifact(0, <<"R">>, "FILLED_RECTANGLE")>>
        yielded == ScanPages(pdf.pages, [GenStart EXCEPT !.yielded = carried]).yielded
    IN  [i \in 1..Len(yielded) |-> MaskedFinding(yielded[i])]

\* `for artifact in masked_text: if artifact.text: findings.append(...)`
MaskedLoop(pdf) ==
    LET kept == SelectSeq(extract_text_inside_filled_rectangles(pdf),
                          LAMBDA a : a.text # <<>>)
    IN  [i \in 1..Len(kept) |-> MaskedFinding(kept[i])]

\* `for data_type, data in extract_pii(text): findings.append(...)`
PiiFindings(artifact, text) ==
    LET pairs == extract_pii(text)
    IN  [i \in 1..Len(pairs) |->
            from_extracted_artifact(artifact, pairs[i][2], pairs[i][1])]

NoException == [kind |-> "none"]

RECURSIVE TextLoopSkippingErrors(_, _)
TextLoopSkippingErrors(pages, acc) ==
    IF pages = <<>> THEN [findings |-> acc, exc |-> NoException]
    ELSE IF Head(pages).text.raises
    THEN [findings |-> acc, exc |-> NoException]
    ELSE TextLoopSkippingErrors(
             Tail(pages),
             acc \o PiiFindings(Artifact(Head(pages).page_number,
                                         Head(pages).text.words \o <<"\n">>,
                                         "REGULAR_TEXT"),
                                Head(pages).text.words \o <<"\n">>))

\* extract_text_from_pdf consumed by the text loop: page_text is the page's
\* text plus '\n'; a failing page ends the loop with RuntimeError, whose
\* message formats the PDF object itself
RECURSIVE TextLoop(_, _)
TextLoop(pages, acc) ==
    IF pages = <<>> THEN [findings |-> acc, exc |-> NoException]
    ELSE IF Head(pages).text.raises
    THEN [findings |-> acc,
          exc |-> RaisedFrom("RuntimeError",
                             [text |-> "Failed to extract text from PDF: ",
                              pdf |-> "<pdfplumber.pdf.PDF object>"],
                             Raised("Exception", <<"extract_text">>))]
    ELSE LET artifact == Artifact(Head(pages).page_number,
                                  Head(pages).text.words \o <<"\n">>,
                                  "REGULAR_TEXT")
         IN  TextLoop(Tail(pages),
                      acc \o (IF artifact.text # <<>>
                              THEN PiiFindings(artifact, artifact.text)
                              ELSE <<>>))

\* " ".join(artifact.text): the lines the OCR read, as one text
RECURSIVE JoinLines(_)
JoinLines(lines) ==
    IF lines = <<>> THEN <<>> ELSE Head(lines) \o JoinLines(Tail(lines))

\* pdf.pages' images in the order extract_images_from_pdf visits them
RECURSIVE PageImageList(_)
PageImageList(pages) ==
    IF pages = <<>> THEN <<>>
    ELSE [k \in 1..Len(Head(pages).images) |->
             [page_number |-> Head(pages).page_number,
              img |-> Head(pages).images[k]]]
         \o PageImageList(Tail(pages))

\* extract_images_from_pdf consumed by the image loop.  An image that
\* cannot be decoded ends the loop: the handler calls save() on the last
\* BytesIO buffer when there is one, which has no such method.
RECURSIVE ImageLoop(_, _, _, _)
ImageLoop(path, items, last_image, acc) ==
    IF items = <<>> THEN [findings |-> acc, exc |-> NoException]
    ELSE IF extract_image_data_from_pdf_image(Head(items).img.stream).kind = "raised"
    THEN [findings |-> acc,
          exc |-> IF last_image
                  THEN RaisedDuring(
                           "AttributeError",
                           <<"'_io.BytesIO' object has no attribute 'save'">>,
                           extract_image_data_from_pdf_image(Head(items).img.stream))
                  ELSE RaisedFrom(
                           "RuntimeError",
                           [text |-> "Error extracting images from PDF: ",
                            path |-> path,
                            page |-> Head(items).page_number],
                           extract_image_data_from_pdf_image(Head(items).img.stream))]
    ELSE LET artifact == Artifact(Head(items).page_number, Head(items).img.ocr,
                                  "IMAGE")
         IN  ImageLoop(path, Tail(items), TRUE,
                       acc \o (IF artifact.text # <<>>
                               THEN PiiFindings(artifact, JoinLines(artifact.text))
                               ELSE <<>>))

\* pdf.pages[-1].images holds at least one image
check_for_signatures(pdf) ==
    IF pdf.pages = <<>> THEN Raised("IndexError", <<"list index out of range">>)
    ELSE [kind |-> "bool", value |-> pdf.pages[Len(pdf.pages)].images # <<>>]

(***************************************************************************)
(* ScannedPDF and process_pdf, one run per document of the batch.          *)
(***************************************************************************)
NoDate == [kind |-> "None"]

ScannedPDF(path) ==
    [path |-> path, author |-> "", title |-> "", subject |-> "",
     keywords |-> "", producer |-> "", creator |-> "",
     creation_date |-> NoDate, modification_date |-> NoDate,
     potential_signatures |-> "unset", findings |-> <<>>]

MetadataGet(metadata, key, default) ==
    IF key \in DOMAIN metadata THEN metadata[key] ELSE default

ArtifactTypeValue(artifact_type) ==
    CASE artifact_type = "REGULAR_TEXT" -> "text"
      [] artifact_type = "IMAGE" -> "image"
      [] artifact_type = "WHITE_TEXT" -> "white_text"
      [] artifact_type = "FILLED_RECTANGLE" -> "filled_rectangle"
      [] OTHER -> "unspecified"

FindingToDict(finding) ==
    [page_number |-> finding.page_number, text |-> finding.text,
     artifact_type |-> ArtifactTypeValue(finding.artifact_type),
     matched_data |-> finding.matched_data,
     matched_data_type |-> finding.matched_data_type]

IsoFormat(date) ==
    IF date.kind = "None" THEN <<>>
    ELSE <<date.year, date.month, date.day, date.hour, date.minute,
           date.second, date.utcoffset>>

to_dict(scanned_pdf) ==
    [path |-> scanned_pdf.path, author |-> scanned_pdf.author,
     title |-> scanned_pdf.title, subject |-> scanned_pdf.subject,
     keywords |-> scanned_pdf.keywords,
     creation_date |-> IsoFormat(scanned_pdf.creation_date),
     modification_date |-> IsoFormat(scanned_pdf.modification_date),
     producer |-> scanned_pdf.producer, creator |-> scanned_pdf.creator,
     findings |-> [i \in 1..Len(scanned_pdf.findings) |->
                      FindingToDict(scanned_pdf.findings[i])]]

\* output_path / (pdf_path.stem + ".json")
OutputFile(path) == <<path.stem, ".json">>

NoPagesNever(pdf) == FALSE

\* `if not pdf.pages:`
NoPages(pdf) == pdf.pages = <<>>

\* a task of the batch before it runs; done_at records the task's place in
\* the order the tasks finish in, 0 while it runs
NewWorker(pdf) ==
    [pc |-> "queued", scanned_pdf |-> ScannedPDF(pdf.path),
     findings |-> <<>>, exc |-> NoException, done_at |-> 0]

\* the tasks that have finished
Finished == {j \in DOMAIN workers : workers[j].pc \in {"returned", "none"}}

\* process_pdf up to the page check: the record is created, the document
\* opened, and a document without pages raises
Open(i) ==
    /\ workers[i].pc = "queued"
    /\ workers' = [workers EXCEPT ![i] =
          IF NoPages(pdf_files[i])
          THEN [@ EXCEPT !.pc = "raised",
                         !.exc = Raised("StopAsyncIteration",
                                        <<"No pages found in PDF">>)]
          ELSE [@ EXCEPT !.pc = "opened"]]
    /\ UNCHANGED <<pdf_files, do_regex, outputs, results>>
    /\ UNCHANGED notBatch

\* lines 240-245: the six metadata fields
SetMetadata(scanned_pdf, metadata) ==
    [scanned_pdf EXCEPT !.author = MetadataGet(metadata, "Author", ""),
                        !.title = MetadataGet(metadata, "Title", ""),
                        !.subject = MetadataGet(metadata, "Subject", ""),
                        !.keywords = MetadataGet(metadata, "Keywords", ""),
                        !.producer = MetadataGet(metadata, "Producer", ""),
                        !.creator = MetadataGet(metadata, "Creator", "")]

\* lines 249-253: the two dates are assigned in turn inside one try block,
\* and the first that raises ends the block
TryDates(scanned_pdf, created, modified) ==
    IF created.kind = "raised" THEN scanned_pdf
    ELSE IF modified.kind = "raised"
    THEN [scanned_pdf EXCEPT !.creation_date = created]
    ELSE [scanned_pdf EXCEPT !.creation_date = created,
                             !.modification_date = modified]

Metadata(i) ==
    /\ workers[i].pc = "opened"
    /\ workers' = [workers EXCEPT
          ![i].pc = "metadata",
          ![i].scanned_pdf =
             TryDates(SetMetadata(@, pdf_files[i].metadata),
                      parse_pdf_date(MetadataGet(pdf_files[i].metadata,
                                                 "CreationDate", <<>>)),
                      parse_pdf_date(MetadataGet(pdf_files[i].metadata,
                                                 "ModDate", <<>>)))]
    /\ UNCHANGED <<pdf_files, do_regex, outputs, results>>
    /\ UNCHANGED notBatch

\* the signature check and the masked-rectangle loop
Masked(i) ==
    LET signatures == check_for_signatures(pdf_files[i])
    IN
    /\ workers[i].pc = "metadata"
    /\ workers' = [workers EXCEPT ![i] =
          IF signatures.kind = "raised"
          THEN [@ EXCEPT !.pc = "raised", !.exc = signatures]
          ELSE [@ EXCEPT !.pc = "masked",
                         !.scanned_pdf.potential_signatures = signatures.value,
                         !.findings = @ \o MaskedLoop(pdf_files[i])]]
    /\ UNCHANGED <<pdf_files, do_regex, outputs, results>>
    /\ UNCHANGED notBatch

\* `if do_regex:` the loop over the pages' text
Text(i) ==
    LET loop == TextLoop(pdf_files[i].pages, workers[i].findings)
    IN
    /\ workers[i].pc = "masked"
    /\ do_regex
    /\ workers' = [workers EXCEPT
          ![i].pc = IF loop.exc.kind = "raised" THEN "raised" ELSE "text",
          ![i].exc = loop.exc,
          ![i].findings = loop.findings]
    /\ UNCHANGED <<pdf_files, do_regex, outputs, results>>
    /\ UNCHANGED notBatch

\* the loop over the images
Images(i) ==
    LET loop == ImageLoop(pdf_files[i].path,
                          PageImageList(pdf_files[i].pages), FALSE,
                          workers[i].findings)
    IN
    /\ workers[i].pc = "text"
    /\ workers' = [workers EXCEPT
          ![i].pc = IF loop.exc.kind = "raised" THEN "raised" ELSE "images",
          ![i].exc = loop.exc,
          ![i].findings = loop.findings]
    /\ UNCHANGED <<pdf_files, do_regex, outputs, results>>
    /\ UNCHANGED notBatch

\* scanned_pdf.add_findings(findings)
AddFindings(i) ==
    /\ \/ workers[i].pc = "masked" /\ ~do_regex
       \/ workers[i].pc = "images"
    /\ workers' = [workers EXCEPT ![i].pc = "added",
                                  ![i].scanned_pdf.findings = workers[i].findings]
    /\ UNCHANGED <<pdf_files, do_regex, outputs, results>>
    /\ UNCHANGED notBatch

\* json.dump(scanned_pdf.to_dict(), f) into the document's output file
WriteOutput(i) ==
    /\ workers[i].pc = "added"
    /\ outputs' = Append(outputs, [file |-> OutputFile(pdf_files[i].path),
                                   by |-> i,
                                   data |-> to_dict(workers[i].scanned_pdf)])
    /\ workers' = [workers EXCEPT ![i].pc = "written"]
    /\ UNCHANGED <<pdf_files, do_regex, results>>
    /\ UNCHANGED notBatch

\* run_in_thread returns what process_pdf returned
Return(i) ==
    /\ workers[i].pc = "written"
    /\ workers' = [workers EXCEPT ![i].pc = "returned",
                                  ![i].done_at = Cardinality(Finished) + 1]
    /\ UNCHANGED <<pdf_files, do_regex, outputs, results>>
    /\ UNCHANGED notBatch

\* run_in_thread's `except Exception`: log, return None
Catch(i) ==
    /\ workers[i].pc = "raised"
    /\ workers' = [workers EXCEPT ![i].pc = "none",
                                  ![i].done_at = Cardinality(Finished) + 1]
    /\ UNCHANGED <<pdf_files, do_regex, outputs, results>>
    /\ UNCHANGED notBatch

RECURSIVE EveryResult(_, _)
EveryResult(ws, i) ==
    IF i > Len(ws) THEN <<>>
    ELSE <<ws[i].scanned_pdf>> \o EveryResult(ws, i + 1)

\* the records in the order their tasks finished in
ResultsAsCompleted(ws, i) ==
    LET finished == [n \in 1..Len(ws) |->
                        ws[CHOOSE j \in 1..Len(ws) : ws[j].done_at = n]]
        returned == SelectSeq(finished, LAMBDA w : w.pc = "returned")
    IN  [n \in 1..Len(returned) |-> returned[n].scanned_pdf]

\* `[res for res in results if res is not None]`, in input order
RECURSIVE NotNone(_, _)
NotNone(ws, i) ==
    IF i > Len(ws) THEN <<>>
    ELSE (IF ws[i].pc = "returned" THEN <<ws[i].scanned_pdf>> ELSE <<>>)
         \o NotNone(ws, i + 1)

\* process_all_pdfs: gather has every task's result
Gather ==
    /\ results.kind = "pending"
    /\ \A i \in DOMAIN workers : workers[i].pc \in {"returned", "none"}
    /\ results' = [kind |-> "returned", list |-> NotNone(workers, 1)]
    /\ UNCHANGED <<pdf_files, do_regex, workers, outputs>>
    /\ UNCHANGED notBatch

IdleBatch ==
    /\ pdf_files = <<>>
    /\ do_regex = FALSE
    /\ workers = <<>>
    /\ outputs = <<>>
    /\ results = [kind |-> "idle"]

\* one document, of any content
InitPdf ==
    /\ pdf_files \in {<<pdf>> : pdf \in PdfDocs}
    /\ do_regex \in BOOLEAN
    /\ workers = [i \in 1..Len(pdf_files) |-> NewWorker(pdf_files[i])]
    /\ outputs = <<>>
    /\ results = [kind |-> "pending"]

\* the documents of a batch
EmptyPdf ==
    [path |-> Path("in", "empty"),
     metadata |-> [Author |-> "alice", CreationDate |-> ValidDateString],
     pages |-> <<>>]

PlainPdf ==
    [path |-> Path("in", "plain"),
     metadata |-> [Author |-> "alice", CreationDate |-> ValidDateString,
                   ModDate |-> ValidDateString],
     pages |-> NumberPages(<<
        [drawing |-> [chars |-> <<CharR, CharB>>, rects |-> <<DarkRect(BoxA)>>],
         text |-> [raises |-> FALSE, words |-> <<"hello", "john@example.com">>],
         images |-> <<JpegImage>>] >>)]

OtherPlainPdf ==
    [path |-> Path("other", "plain"),
     metadata |-> [Producer |-> "writer"],
     pages |-> NumberPages(<<
        [drawing |-> [chars |-> <<>>, rects |-> <<>>],
         text |-> [raises |-> FALSE, words |-> <<"0612345678">>],
         images |-> <<>>] >>)]

UnreadablePdf ==
    [path |-> Path("in", "unreadable"),
     metadata |-> [Author |-> "bob", CreationDate |-> MalformedDateString],
     pages |-> NumberPages(<<
        [drawing |-> [chars |-> <<CharB, CharX, CharR>>,
                      rects |-> <<DarkRect(BoxA), DarkRect(BoxB)>>],
         text |-> [raises |-> FALSE, words |-> <<"jane@example.org">>],
         images |-> <<>>],
        [drawing |-> [chars |-> <<CharB>>, rects |-> <<DarkRect(BoxB)>>],
         text |-> [raises |-> TRUE, words |-> <<>>],
         images |-> <<>>] >>)]

BrokenImagePdf ==
    [path |-> Path("in", "broken"),
     metadata |-> [Producer |-> "writer"],
     pages |-> NumberPages(<<
        [drawing |-> [chars |-> <<>>, rects |-> <<>>],
         text |-> [raises |-> FALSE, words |-> <<"jane@example.org">>],
         images |-> <<GreyImage, BrokenImage>>] >>)]

BatchDocs == {EmptyPdf, PlainPdf, OtherPlainPdf, UnreadablePdf, BrokenImagePdf}

InitBatch ==
    /\ pdf_files \in SeqsUpTo(BatchDocs, MaxDocs)
    /\ do_regex \in BOOLEAN
    /\ workers = [i \in 1..Len(pdf_files) |-> NewWorker(pdf_files[i])]
    /\ outputs = <<>>
    /\ results = [kind |-> "pending"]

NextBatch ==
    \/ \E i \in DOMAIN workers : Open(i)
    \/ \E i \in DOMAIN workers : Metadata(i)
    \/ \E i \in DOMAIN workers : Masked(i)
    \/ \E i \in DOMAIN workers : Text(i)
    \/ \E i \in DOMAIN workers : Images(i)
    \/ \E i \in DOMAIN workers : AddFindings(i)
    \/ \E i \in DOMAIN workers : WriteOutput(i)
    \/ \E i \in DOMAIN workers : Return(i)
    \/ \E i \in DOMAIN workers : Catch(i)
    \/ Gather

(***************************************************************************)
(* The specifications: one per component, the other components idle.       *)
(***************************************************************************)
StartMasked == IdleWhite /\ IdleDate /\ IdleCodec /\ IdleBatch /\ IdlePii /\ InitMasked
SpecMasked == StartMasked /\ [][NextMasked]_vars

StartWhite == IdleMasked /\ IdleDate /\ IdleCodec /\ IdleBatch /\ IdlePii /\ InitWhite
SpecWhite == StartWhite /\ [][NextWhite]_vars

StartDate == IdleMasked /\ IdleWhite /\ IdleCodec /\ IdleBatch /\ IdlePii /\ InitDate
SpecDate == StartDate /\ [][NextDate]_vars

StartCodec == IdleMasked /\ IdleWhite /\ IdleDate /\ IdleBatch /\ IdlePii /\ InitCodec
SpecCodec == StartCodec /\ [][NextCodec]_vars

StartPdf == IdleMasked /\ IdleWhite /\ IdleDate /\ IdleCodec /\ IdlePii /\ InitPdf
SpecPdf == StartPdf /\ [][NextBatch]_vars

StartBatch == IdleMasked /\ IdleWhite /\ IdleDate /\ IdleCodec /\ IdlePii /\ InitBatch
SpecBatch == StartBatch /\ [][NextBatch]_vars

StartPii ==
    IdleMasked /\ IdleWhite /\ IdleDate /\ IdleCodec /\ IdleBatch /\ InitPii
SpecPii == StartPii /\ [][NextPii]_vars

(***************************************************************************)
(* Claims about the masked-rectangle extractor (SpecMasked).  A page's     *)
(* artifacts are complete in the states with mpc = "page_done".            *)
(***************************************************************************)
\* What the specification calls a dark filled rectangle: marked filled, a
\* fill colour recorded, each of its channels in [0.0, 0.2].
ChannelsDark(color) ==
    \A i \in 1..Len(color.chans) : color.chans[i] \in 0..20

DarkFilledRect(rect) ==
    /\ rect.fill = "True"
    /\ rect.non_stroking_color.kind # "missing"
    /\ ChannelsDark(rect.non_stroking_color)

NearestInt(q) == IF q % 4 = 2 THEN 2 * ((q + 2) \div 8) ELSE (q + 2) \div 4

RoundedInside(char, rect) ==
    /\ NearestInt(rect.x0) <= NearestInt(char.x0)
    /\ NearestInt(char.x1) <= NearestInt(rect.x1)
    /\ NearestInt(rect.y0) <= NearestInt(char.y0)
    /\ NearestInt(char.y1) <= NearestInt(rect.y1)

\* The texts, in document order, of the characters lying inside rect.
TextInside(chars, rect) ==
    LET inside == SelectSeq(chars, LAMBDA c : RoundedInside(c, rect))
    IN  [i \in 1..Len(inside) |-> inside[i].text]

OneDarkRectPage ==
    /\ mpc = "page_done"
    /\ Len(mPage.rects) = 1
    /\ DarkFilledRect(mPage.rects[1])

\* C1 (as amended): a page whose one rectangle is dark and filled yields one
\* FILLED_RECTANGLE artifact holding exactly the characters whose rounded box
\* lies inside the rectangle's rounded bounds, in document order, when there
\* is such a character, and no artifact when there is none.
C1_OneDarkRectangle ==
    OneDarkRectPage =>
        LET t == TextInside(mPage.chars, mPage.rects[1])
        IN  mGen.yielded =
                IF t = <<>> THEN <<>>
                ELSE <<Artifact(mPage.page_number, t, "FILLED_RECTANGLE")>>

\* C1 as stated: such a page always yields exactly one artifact.
C1_AlwaysOneArtifact ==
    OneDarkRectPage =>
        /\ Len(mGen.yielded) = 1
        /\ mGen.yielded[1].text = TextInside(mPage.chars, mPage.rects[1])

\* A character inside only thanks to the rounding is captured, one outside
\* is left out.
C1_Witness ==
    /\ OneDarkRectPage
    /\ Len(mPage.chars) = 2
    /\ \E i \in 1..2 : mPage.chars[i].text = "X"
    /\ Len(mGen.yielded) = 1
    /\ mGen.yielded[1].text = <<"R">>

\* C2: when every rectangle of the page is unfilled, or has no dark fill
\* colour recorded, the page captures no character and yields no artifact.
C2_OnlyDarkFilledCapture ==
    ( /\ mpc \in {"rects", "page_done"}
      /\ \A i \in 1..Len(mPage.rects) : ~DarkFilledRect(mPage.rects[i]) )
    => (mGen.captured_text = <<>> /\ mGen.yielded = <<>>)

\* what a rectangle captures: the characters inside it when it is filled
\* and none of its colour channels exceeds 0.2
CapturedBy(chars, rect) ==
    IF rect.fill = "True" /\ ChannelsDark(rect.non_stroking_color)
    THEN TextInside(chars, rect)
    ELSE <<>>

\* rectangle k opens a band: its rounded top differs from its predecessor's
OpensBand(rects, k) ==
    k = 1 \/ NearestInt(rects[k].y0) # NearestInt(rects[k - 1].y0)

\* the band rectangle k lies in, the bands of a page counted from 1
BandIndex(rects, k) == Cardinality({j \in 1..k : OpensBand(rects, j)})

\* what the rectangles k..upto of band b capture, in order
RECURSIVE BandText(_, _, _, _, _)
BandText(chars, rects, b, k, upto) ==
    IF k > upto THEN <<>>
    ELSE (IF BandIndex(rects, k) = b THEN CapturedBy(chars, rects[k]) ELSE <<>>)
         \o BandText(chars, rects, b, k + 1, upto)

\* the non-empty texts of the bands 1..last, in order
RECURSIVE BandTexts(_, _, _, _, _)
BandTexts(chars, rects, b, last, upto) ==
    IF b > last THEN <<>>
    ELSE (IF BandText(chars, rects, b, 1, upto) = <<>> THEN <<>>
          ELSE <<BandText(chars, rects, b, 1, upto)>>)
         \o BandTexts(chars, rects, b + 1, last, upto)

\* C16: on every page, whatever the band tracker held when the page began,
\* the artifacts yielded are the non-empty texts of the page's closed bands,
\* one FILLED_RECTANGLE artifact per band in order, tagged with the page's
\* number; a band is closed by the first rectangle whose rounded top differs
\* and the last band by the end of the page; the buffer holds what the open
\* band has captured.
C16_OneArtifactPerBand ==
    mpc \in {"rects", "page_done"} =>
        LET current == IF mRectIdx = 0 THEN 0
                       ELSE BandIndex(mPage.rects, mRectIdx)
            closed == IF mpc = "page_done" THEN current
                      ELSE IF current = 0 THEN 0 ELSE current - 1
        IN  /\ [n \in 1..Len(mGen.yielded) |-> mGen.yielded[n].text]
                  = BandTexts(mPage.chars, mPage.rects, 1, closed, mRectIdx)
            /\ mGen.captured_text
                  = IF mpc = "page_done" \/ current = 0 THEN <<>>
                    ELSE BandText(mPage.chars, mPage.rects, current, 1, mRectIdx)
            /\ \A n \in 1..Len(mGen.yielded) :
                  /\ mGen.yielded[n].text # <<>>
                  /\ mGen.yielded[n].page_number = mPage.page_number
                  /\ mGen.yielded[n].artifact_type = "FILLED_RECTANGLE"

\* page 2 begins with a rectangle at the top the tracker already holds from
\* page 1: its text and the next band's are two artifacts of page 2
C16_Witness ==
    /\ mpc = "page_done"
    /\ mPage.page_number = 2
    /\ Len(mPage.rects) = 2
    /\ NearestInt(mPage.rects[1].y0) # NearestInt(mPage.rects[2].y0)
    /\ mGen.last_y_offset = NearestInt(mPage.rects[2].y0)
    /\ Len(mGen.yielded) = 2
    /\ mGen.yielded[1].text = <<"B">>
    /\ mGen.yielded[2].text = <<"R">>

(***************************************************************************)
(* Claims about the white-text extractor (SpecWhite).                      *)
(***************************************************************************)
RECURSIVE Flatten(_)
Flatten(seqs) ==
    IF seqs = <<>> THEN <<>> ELSE Head(seqs) \o Flatten(Tail(seqs))

TextsOf(artifacts) == [i \in 1..Len(artifacts) |-> artifacts[i].text]

\* The characters the extractor has read so far, in document order.
WhiteRead ==
    IF wPageIdx = 0 THEN <<>>
    ELSE Flatten(SubSeq(wDoc, 1, wPageIdx - 1))
         \o SubSeq(wDoc[wPageIdx], 1, wCharIdx)

WhiteByColor(ch) ==
    \A i \in DOMAIN ch.non_stroking_color : ch.non_stroking_color[i] \in 80..100

\* The positions where a white character is directly followed by a
\* non-white one: the ends of the runs a non-white character closes.
ClosedRunEnds(cs) ==
    {j \in 1..(Len(cs) - 1) : WhiteByColor(cs[j]) /\ ~WhiteByColor(cs[j + 1])}

\* The white run ending at position j, as a text.
RunEndingAt(cs, j) ==
    LET start == CHOOSE i \in 1..j :
                    /\ \A k \in i..j : WhiteByColor(cs[k])
                    /\ i = 1 \/ ~WhiteByColor(cs[i - 1])
    IN  [k \in 1..(j - start + 1) |-> cs[start + k - 1].text]

NthSmallest(S, n) == CHOOSE x \in S : Cardinality({y \in S : y < x}) = n - 1

ClosedRuns(cs) ==
    [n \in 1..Cardinality(ClosedRunEnds(cs)) |->
        RunEndingAt(cs, NthSmallest(ClosedRunEnds(cs), n))]

\* The white characters at the end of cs, not yet followed by anything.
OpenRun(cs) ==
    IF cs = <<>> \/ ~WhiteByColor(cs[Len(cs)]) THEN <<>>
    ELSE RunEndingAt(cs, Len(cs))

\* C3: the artifacts yielded so far are exactly the maximal white runs that
\* a non-white character has closed, one WHITE_TEXT artifact per run, in
\* order; the buffer holds the run still open, so it is empty right after a
\* non-white character, and no non-white character is in any artifact.
C3_WhiteRuns ==
    wpc \in {"pages", "chars", "returned"} =>
        /\ TextsOf(wGen.yielded) = ClosedRuns(WhiteRead)
        /\ \A i \in 1..Len(wGen.yielded) :
              wGen.yielded[i].artifact_type = "WHITE_TEXT"
        /\ wGen.captured_white_text = OpenRun(WhiteRead)

\* A run that crosses the page boundary has been closed by "x".
C3_Witness ==
    /\ wpc = "chars"
    /\ wPageIdx = 2
    /\ wCharIdx = 2
    /\ TextsOf(wGen.yielded) = << <<"S", "E", "S">> >>
    /\ wGen.captured_white_text = <<>>

\* C4: when the extractor has returned, every white character of the
\* document is in an artifact it yielded, in document order.
C4_FlushAtEndOfStream ==
    wpc = "returned" =>
        Flatten(TextsOf(wGen.yielded)) =
            LET white == SelectSeq(Flatten(wDoc), WhiteByColor)
            IN  [i \in 1..Len(white) |-> white[i].text]

\* the page on which the j-th character of the document lies
PageOfPosition(j) ==
    CHOOSE p \in 1..Len(wDoc) :
        /\ Len(Flatten(SubSeq(wDoc, 1, p - 1))) < j
        /\ j <= Len(Flatten(SubSeq(wDoc, 1, p)))

\* C15: the artifact a non-white character flushes is tagged with the page
\* number of the character before it, the last white character of the run,
\* also when that character lies on an earlier page than the non-white one.
C15_TaggedWithPreviousPage ==
    wpc \in {"pages", "chars", "returned"} =>
        \A n \in 1..Len(wGen.yielded) :
            /\ n <= Cardinality(ClosedRunEnds(WhiteRead))
            /\ wGen.yielded[n].page_number
                  = PageOfPosition(NthSmallest(ClosedRunEnds(WhiteRead), n))

(***************************************************************************)
(* Claims about parse_pdf_date (SpecDate).                                 *)
(***************************************************************************)
DateParsed == dateResult.kind \notin {"pending", "idle"}

\* pdf_date is a full date YYYYMMDDhhmmss of the calendar, then a sign or
\* none, then a timezone hour and minute of the clock or none; "+" and "-"
\* are followed by the timezone.
FullDateWritten ==
    /\ dateParts.style # "not a full date"
    /\ dateParts.month \in 1..12
    /\ dateParts.day >= 1
    /\ dateParts.day <= (IF dateParts.month = 2
                         THEN (IF dateParts.year % 4 = 0 THEN 29 ELSE 28)
                         ELSE 30)
    /\ dateParts.hour \in 0..23
    /\ dateParts.minute \in 0..59
    /\ dateParts.second \in 0..59
    /\ dateParts.tz_hour \in 0..23
    /\ dateParts.tz_minute \in 0..59
    /\ dateParts.sign \in {<<"+">>, <<"-">>} => dateParts.style # "none"

OffsetWritten ==
    CASE dateParts.sign = <<"+">> ->
            60 * dateParts.tz_hour + dateParts.tz_minute
      [] dateParts.sign = <<"-">> ->
            -(60 * dateParts.tz_hour + dateParts.tz_minute)
      [] OTHER -> 0

\* C5: a full date followed by a sign and a timezone parses to its own
\* year, month, day, hour, minute and second, at offset +hh:mm for "+" and
\* -hh:mm for "-", and at offset zero (UTC) when the sign is "Z" or absent.
C5_DateAndOffset ==
    (DateParsed /\ FullDateWritten) =>
        dateResult = [kind |-> "datetime", year |-> dateParts.year,
                      month |-> dateParts.month, day |-> dateParts.day,
                      hour |-> dateParts.hour, minute |-> dateParts.minute,
                      second |-> dateParts.second, utcoffset |-> OffsetWritten]

HasDPrefix(str) == Len(str) >= 2 /\ str[1] = "D" /\ str[2] = ":"

WithoutDPrefix(str) ==
    IF HasDPrefix(str) THEN [i \in 1..(Len(str) - 2) |-> str[i + 2]] ELSE str

\* The positional pattern fails exactly when the string, less its D:, does
\* not start with the four digits of a year.
PatternFails(str) ==
    LET body == WithoutDPrefix(str)
    IN  ~(Len(body) >= 4 /\ \A i \in 1..4 : body[i] \in
            {"0", "1", "2", "3", "4", "5", "6", "7", "8", "9"})

\* C6: the empty string gives None; a non-empty string on which the pattern
\* fails gives the invalid-format error, which names the string the pattern
\* was tried on (pdf_date less its D: prefix), and never a timestamp.
C6_EmptyAndMalformed ==
    DateParsed =>
        /\ pdf_date = <<>> => dateResult = [kind |-> "None"]
        /\ (pdf_date # <<>> /\ PatternFails(pdf_date)) =>
              dateResult = Raised("ValueError",
                                  <<"Invalid PDF date format: ",
                                    WithoutDPrefix(pdf_date)>>)

\* "x20230615" holds a date, but not at its start: it is malformed.
C6_Witness ==
    /\ pdf_date = <<"x", "2", "0", "2", "3", "0", "6", "1", "5">>
    /\ dateResult.kind = "raised"
    /\ dateResult.message[2] = pdf_date

(***************************************************************************)
(* Claims about the image codec adapter (SpecCodec).                       *)
(***************************************************************************)
FlateDecoded ==
    /\ decoded.kind \notin {"pending", "idle"}
    /\ "FlateDecode" \in image.Filter
    /\ "DCTDecode" \notin image.Filter

Samples(mode) == IF mode = "L" THEN 1 ELSE 3

\* C7: in the FlateDecode branch the buffer the raster is built from has
\* exactly expected_len bytes (width*height for L, width*height*3 for RGB);
\* its first min(len(payload), expected_len) bytes are the payload's first
\* bytes and every byte after them is zero.
C7_FlateBuffer ==
    FlateDecoded =>
        /\ decoded.kind = "image"
        /\ decoded.how = "frombytes"
        /\ decoded.mode \in {"L", "RGB"}
        /\ LET expected_len ==
                   image.Width * image.Height * Samples(decoded.mode)
               kept == IF Len(image.data) < expected_len
                       THEN Len(image.data) ELSE expected_len
           IN  /\ Len(decoded.data) = expected_len
               /\ \A i \in 1..kept : decoded.data[i] = image.data[i]
               /\ \A i \in (kept + 1)..expected_len : decoded.data[i] = 0

\* a 1x1 grey image given two bytes keeps the first (truncation) ...
C7_Witness ==
    /\ FlateDecoded
    /\ decoded.kind = "image"
    /\ decoded.mode = "L"
    /\ image.data = <<255, 255>>
    /\ decoded.data = <<255>>

(***************************************************************************)
(* process_pdf: the findings of a document record.                         *)
(***************************************************************************)
Done(i) == workers[i].pc \in {"added", "written", "returned"}

GroupOf(finding) ==
    CASE finding.artifact_type = "FILLED_RECTANGLE" -> 1
      [] finding.artifact_type = "REGULAR_TEXT" -> 2
      [] finding.artifact_type = "IMAGE" -> 3

\* the first rectangle of the finding's page that captures the finding's text
BandOf(pdf, finding) ==
    LET page == pdf.pages[finding.page_number]
    IN  CHOOSE r \in 1..Len(page.rects) :
            /\ CapturedChars(page.chars, page.rects[r]) # <<>>
            /\ Head(CapturedChars(page.chars, page.rects[r])) = Head(finding.text)
            /\ \A q \in 1..(r - 1) :
                  \/ CapturedChars(page.chars, page.rects[q]) = <<>>
                  \/ Head(CapturedChars(page.chars, page.rects[q]))
                        # Head(finding.text)

\* the image of the finding's page in which the OCR read the finding's text
ImageOf(pdf, finding) ==
    LET images == pdf.pages[finding.page_number].images
    IN  CHOOSE k \in 1..Len(images) : images[k].ocr = finding.text

RegistryIndex(finding) ==
    CHOOSE k \in 1..Len(PATTERNS) : PATTERNS[k] = finding.matched_data_type

\* where in the scanned text the finding's match lies
MatchPosition(finding, text) ==
    CHOOSE n \in 1..Len(text) :
        /\ Match(finding.matched_data_type, text[n]).found
        /\ FindAllItem(Match(finding.matched_data_type, text[n]))
              = finding.matched_data

Rank(pdf, finding) ==
    CASE GroupOf(finding) = 1 ->
            <<1, finding.page_number, BandOf(pdf, finding), 0, 0>>
      [] GroupOf(finding) = 2 ->
            <<2, finding.page_number, 0, RegistryIndex(finding),
              MatchPosition(finding, finding.text)>>
      [] GroupOf(finding) = 3 ->
            <<3, finding.page_number, ImageOf(pdf, finding),
              RegistryIndex(finding),
              MatchPosition(finding, JoinLines(finding.text))>>

RankBefore(a, b) ==
    \E k \in 1..5 : a[k] < b[k] /\ \A m \in 1..(k - 1) : a[m] = b[m]

\* C8: in a document record the findings stand in the order group (masked
\* rectangle, plain text, image), then page, then band or image within the
\* page, then pattern-registry position, then position of the match: each
\* finding ranks strictly before the next, so that no finding of a later
\* group precedes one of an earlier group.
C8_FindingsOrdered ==
    \A i \in DOMAIN workers :
        Done(i) =>
            LET found == workers[i].scanned_pdf.findings
                ranks == [k \in 1..Len(found) |-> Rank(pdf_files[i], found[k])]
            IN  \A a \in 1..(Len(found) - 1) : RankBefore(ranks[a], ranks[a + 1])

\* a returned two-page record with a masked finding of page 2 ahead of a
\* phone number in the text of page 1, itself ahead of two images' findings
C8_Witness ==
    \E i \in DOMAIN workers :
        /\ workers[i].pc = "returned"
        /\ Len(pdf_files[i].pages) = 2
        /\ LET found == workers[i].scanned_pdf.findings
           IN  \E a, b, c, d \in 1..Len(found) :
                  /\ a < b /\ b < c /\ c < d
                  /\ GroupOf(found[a]) = 1 /\ found[a].page_number = 2
                  /\ GroupOf(found[b]) = 2 /\ found[b].page_number = 1
                  /\ found[b].matched_data_type = "phone"
                  /\ GroupOf(found[c]) = 3 /\ found[c].matched_data_type = "phone"
                  /\ GroupOf(found[d]) = 3 /\ found[d].matched_data_type = "email"
                  /\ found[c].page_number = found[d].page_number

\* the findings the masked artifacts of a document call for
MaskedArtifactFindings(pdf) ==
    LET artifacts == SelectSeq(extract_text_inside_filled_rectangles(pdf),
                               LAMBDA a : a.text # <<>>)
    IN  [k \in 1..Len(artifacts) |->
            [page_number |-> artifacts[k].page_number,
             text |-> artifacts[k].text,
             artifact_type |-> "FILLED_RECTANGLE",
             matched_data |-> artifacts[k].text,
             matched_data_type |-> "filled_rectangle"]]

PastMasked(i) ==
    workers[i].pc \in {"masked", "text", "images", "added", "written", "returned"}

\* C9: with the flag on or off, once the masked loop has run the findings
\* begin with exactly one finding per non-empty masked artifact (matched_data
\* the artifact's text, type "filled_rectangle") and hold no other finding of
\* that type; with do_regex false the text and image loops are never entered
\* and the record's findings are exactly those.
C9_MaskedAlwaysRuns ==
    \A i \in DOMAIN workers :
        LET expected == MaskedArtifactFindings(pdf_files[i])
            found == workers[i].findings
        IN  /\ PastMasked(i) =>
                /\ Len(found) >= Len(expected)
                /\ SubSeq(found, 1, Len(expected)) = expected
                /\ \A k \in (Len(expected) + 1)..Len(found) :
                      /\ found[k].matched_data_type # "filled_rectangle"
                      /\ found[k].artifact_type # "FILLED_RECTANGLE"
            /\ ~do_regex =>
                /\ workers[i].pc \notin {"text", "images"}
                /\ PastMasked(i) => found = expected
                /\ Done(i) => workers[i].scanned_pdf.findings = expected

\* scanning is off, the document has text and images holding PII, and the
\* returned record holds its two masked findings and nothing else
C9_Witness ==
    \E i \in DOMAIN workers :
        /\ ~do_regex
        /\ workers[i].pc = "returned"
        /\ Len(workers[i].scanned_pdf.findings) = 2
        /\ \E n \in 1..Len(pdf_files[i].pages) :
              /\ extract_pii(pdf_files[i].pages[n].text.words) # <<>>
              /\ pdf_files[i].pages[n].images # <<>>

\* a document process_pdf gets through: it has pages and, when scanning is
\* on, every page's text can be read and every image decoded
ValidPdf(pdf) ==
    /\ pdf.pages # <<>>
    /\ do_regex =>
          \A n \in 1..Len(pdf.pages) :
              /\ ~pdf.pages[n].text.raises
              /\ \A k \in 1..Len(pdf.pages[n].images) :
                    extract_image_data_from_pdf_image(
                        pdf.pages[n].images[k].stream).kind # "raised"

PathsOf(records) == [k \in 1..Len(records) |-> records[k].path]

\* C10: a document without pages fails at the page check with the no-pages
\* error: its record keeps the constructor's defaults, no extractor runs, it
\* writes no output file and is absent from the batch result, while every
\* valid document of the same batch is in the result.
C10_ZeroPages ==
    \A i \in DOMAIN workers :
        pdf_files[i].pages = <<>> =>
            /\ workers[i].pc \in {"queued", "raised", "none"}
            /\ workers[i].pc # "queued" =>
                  /\ workers[i].exc.kind = "raised"
                  /\ workers[i].exc.exc = "StopAsyncIteration"
            /\ workers[i].scanned_pdf = ScannedPDF(pdf_files[i].path)
            /\ workers[i].findings = <<>>
            /\ \A k \in 1..Len(outputs) : outputs[k].by # i
            /\ results.kind = "returned" =>
                  /\ \A k \in 1..Len(results.list) :
                        results.list[k].path # pdf_files[i].path
                  /\ \A j \in DOMAIN workers :
                        ValidPdf(pdf_files[j]) =>
                            /\ workers[j].pc = "returned"
                            /\ \E k \in 1..Len(results.list) :
                                  results.list[k].path = pdf_files[j].path
                            /\ \E k \in 1..Len(outputs) : outputs[k].by = j

\* a batch of a document without pages followed by a valid one has returned
\* the valid one's record alone
C10_Witness ==
    /\ results.kind = "returned"
    /\ Len(pdf_files) = 2
    /\ pdf_files[1].pages = <<>>
    /\ ValidPdf(pdf_files[2])
    /\ workers[1].pc = "none"
    /\ PathsOf(results.list) = <<pdf_files[2].path>>
    /\ Len(outputs) = 1

(***************************************************************************)
(* process_all_pdfs: the documents of a batch side by side.                *)
(***************************************************************************)
\* the positions of the batch whose document is valid, in input order
RECURSIVE ValidPositions(_)
ValidPositions(i) ==
    IF i > Len(pdf_files) THEN <<>>
    ELSE (IF ValidPdf(pdf_files[i]) THEN <<i>> ELSE <<>>)
         \o ValidPositions(i + 1)

\* C11: whatever the other documents of the batch do and however the workers
\* interleave, a document fails exactly when it is itself not valid, and the
\* list process_all_pdfs returns holds, in input order, the record of each
\* document that got through and nothing for one that failed.
C11_FailureIsolation ==
    /\ \A i \in DOMAIN workers :
          /\ workers[i].pc \in {"raised", "none"} => ~ValidPdf(pdf_files[i])
          /\ workers[i].pc \in {"text", "images", "added", "written", "returned"}
                /\ do_regex
                => \A n \in 1..Len(pdf_files[i].pages) :
                       ~pdf_files[i].pages[n].text.raises
          /\ workers[i].exc.kind = "raised" <=> workers[i].pc \in {"raised", "none"}
    /\ results.kind = "returned" =>
          LET valid == ValidPositions(1)
          IN  /\ Len(results.list) = Len(valid)
              /\ \A k \in 1..Len(valid) :
                    /\ workers[valid[k]].pc = "returned"
                    /\ results.list[k].path = pdf_files[valid[k]].path
                    /\ Len(results.list[k].findings)
                          = Len(workers[valid[k]].findings)
              /\ \A i \in DOMAIN workers :
                    ~ValidPdf(pdf_files[i]) => workers[i].pc = "none"

\* a document whose text cannot be read, then a valid one, scanning on: the
\* batch has returned the second document's record alone
C11_Witness ==
    /\ results.kind = "returned"
    /\ do_regex
    /\ Len(pdf_files) = 2
    /\ pdf_files[1].pages # <<>>
    /\ workers[1].pc = "none"
    /\ workers[1].exc.exc = "RuntimeError"
    /\ workers[2].pc = "returned"
    /\ PathsOf(results.list) = <<pdf_files[2].path>>

\* what the whole pipeline finds in a document it gets through
CompleteFindings(pdf) ==
    MaskedArtifactFindings(pdf)
    \o (IF do_regex
        THEN TextLoop(pdf.pages, <<>>).findings
             \o ImageLoop(pdf.path, PageImageList(pdf.pages), FALSE, <<>>).findings
        ELSE <<>>)

\* C12: a record's findings are empty until add_findings replaces them, once,
\* with everything the enabled extractors found; a document in which an
\* extractor raises never gets that far, writes no output file and returns no
\* record, so every record returned or written holds the complete findings.
C12_NoPartialRecord ==
    \A i \in DOMAIN workers :
        /\ Done(i) => ValidPdf(pdf_files[i])
        /\ ~Done(i) => workers[i].scanned_pdf.findings = <<>>
        /\ workers[i].pc \in {"raised", "none"} =>
              /\ \A k \in 1..Len(outputs) : outputs[k].by # i
              /\ results.kind = "returned" =>
                    \A k \in 1..Len(results.list) :
                        results.list[k].path # pdf_files[i].path
        /\ Done(i) =>
              /\ Len(workers[i].scanned_pdf.findings)
                    = Len(CompleteFindings(pdf_files[i]))
              /\ workers[i].scanned_pdf.findings = CompleteFindings(pdf_files[i])
        /\ \A k \in 1..Len(outputs) :
              outputs[k].by = i =>
                  /\ workers[i].pc \in {"written", "returned"}
                  /\ Len(outputs[k].data.findings)
                        = Len(CompleteFindings(pdf_files[i]))

\* the text of page 1 gave findings, the text of page 2 could not be read:
\* the findings gathered so far are in no record and no file
C12_Witness ==
    /\ results.kind = "returned"
    /\ results.list = <<>>
    /\ outputs = <<>>
    /\ \E i \in DOMAIN workers :
          /\ workers[i].pc = "none"
          /\ Len(pdf_files[i].pages) = 2
          /\ pdf_files[i].pages[2].text.raises
          /\ Len(workers[i].findings) > 2
          /\ workers[i].scanned_pdf.findings = <<>>

RECURSIVE MatchesIn(_, _)
MatchesIn(category, words) ==
    IF words = <<>> THEN <<>>
    ELSE (IF Match(category, Head(words)) = NoMatch THEN <<>>
          ELSE <<Match(category, Head(words))>>)
         \o MatchesIn(category, Tail(words))

NonEmptyMatchesIn(category, words) ==
    SelectSeq(MatchesIn(category, words), LAMBDA m : m.whole # "")

PairsOf(category, pairs) == SelectSeq(pairs, LAMBDA pair : pair[1] = category)

RegistryPosition(category) ==
    CHOOSE k \in 1..Len(PATTERNS) : PATTERNS[k] = category

PairPerNonEmptyMatch ==
    LET pairs == pii_pairs.pairs
    IN  /\ \A a \in 1..Len(pairs) :
              \E k \in 1..Len(PATTERNS) : PATTERNS[k] = pairs[a][1]
        /\ \A a, b \in 1..Len(pairs) :
              a < b => RegistryPosition(pairs[a][1]) <= RegistryPosition(pairs[b][1])
        /\ \A k \in 1..Len(PATTERNS) :
              LET matches == NonEmptyMatchesIn(PATTERNS[k], pii_text)
                  yielded == PairsOf(PATTERNS[k], pairs)
              IN  /\ Len(yielded) = Len(matches)
                  /\ \A n \in 1..Len(matches) :
                        yielded[n][2] = FindAllItem(matches[n])

\* C14: for every text and registry the pairs extract_pii yields are, registry
\* entry after registry entry, one pair for each non-empty match of the
\* entry's pattern in the order the matches occur, and none for an empty match.
C14_PairPerMatch ==
    pii_pairs.kind = "yielded" => PairPerNonEmptyMatch

(***************************************************************************)
(* Claims about the classifiers' failures (SpecPdf).                       *)
(***************************************************************************)
\* the pages whose text cannot be extracted
TextFailsOn(pdf) == {k \in 1..Len(pdf.pages) : pdf.pages[k].text.raises}

\* the images, in reading order, that cannot be decoded
ImageFailsAt(pdf) ==
    {k \in 1..Len(PageImageList(pdf.pages)) :
        extract_image_data_from_pdf_image(
            PageImageList(pdf.pages)[k].img.stream).kind = "raised"}

Least(S) == CHOOSE k \in S : \A j \in S : k <= j

\* the page a document's classifiers fail on: the text extractor's first
\* unreadable page, else the page of the first undecodable image
FailingPage(pdf) ==
    IF TextFailsOn(pdf) # {} THEN pdf.pages[Least(TextFailsOn(pdf))].page_number
    ELSE PageImageList(pdf.pages)[Least(ImageFailsAt(pdf))].page_number

\* the file the image extractor keeps the last decoded image in
ErrorImageFile(path) == <<"image_error_", path.stem, ".png">>

\* C17: a document with pages whose classifier fails mid-stream ends with a
\* RuntimeError that names the document's path and the page the failure
\* happened on and has the original exception as its cause; when the image
\* extractor fails after it decoded an image, that image has been saved.
C17_ClassifierFailure ==
    \A i \in DOMAIN workers :
        (workers[i].exc.kind = "raised" /\ pdf_files[i].pages # <<>>) =>
            /\ workers[i].exc.exc = "RuntimeError"
            /\ "cause" \in DOMAIN workers[i].exc
            /\ "path" \in DOMAIN workers[i].exc.message
            /\ workers[i].exc.message.path = pdf_files[i].path
            /\ "page" \in DOMAIN workers[i].exc.message
            /\ workers[i].exc.message.page = FailingPage(pdf_files[i])
            /\ (TextFailsOn(pdf_files[i]) = {}
                /\ Least(ImageFailsAt(pdf_files[i])) > 1)
               => \E k \in 1..Len(outputs) :
                      outputs[k].file = ErrorImageFile(pdf_files[i].path)

(***************************************************************************)
(* Claims about undecodable images (SpecCodec).                            *)
(***************************************************************************)
\* an image whose filter is neither DCTDecode nor FlateDecode and whose
\* bytes no decoder recognises has been handed to the codec adapter
UnsupportedDecoded ==
    /\ decoded.kind \notin {"idle", "pending"}
    /\ "DCTDecode" \notin image.Filter
    /\ "FlateDecode" \notin image.Filter
    /\ ~image.openable

\* C18: for an image with an unsupported filter whose bytes cannot be
\* decoded by auto-detection, the adapter raises UnsupportedCodecError with
\* a message that names the image's filter.
C18_UnsupportedCodec ==
    UnsupportedDecoded =>
        /\ decoded.kind = "raised"
        /\ decoded.exc = "UnsupportedCodecError"
        /\ \A tag \in image.Filter :
               \E k \in DOMAIN decoded.message : decoded.message[k] = tag

(***************************************************************************)
(* Claims about the metadata dates (SpecPdf).                              *)
(***************************************************************************)
\* the date string a document's metadata holds under a key fails to parse
DateFails(pdf, key) ==
    parse_pdf_date(MetadataGet(pdf.metadata, key, <<>>)).kind = "raised"

\* C19: once a document's metadata has been read, if its creation date or
\* its modification date fails to parse then the record's creation_date and
\* modification_date are both unset (and serialise as empty), and the
\* document has not failed for it.
C19_BothDatesUnset ==
    \A i \in DOMAIN workers :
        (/\ workers[i].pc \notin {"queued", "opened"}
         /\ pdf_files[i].pages # <<>>
         /\ (DateFails(pdf_files[i], "CreationDate")
             \/ DateFails(pdf_files[i], "ModDate"))) =>
            /\ workers[i].scanned_pdf.creation_date = NoDate
            /\ workers[i].scanned_pdf.modification_date = NoDate
            /\ IsoFormat(workers[i].scanned_pdf.creation_date) = <<>>
            /\ IsoFormat(workers[i].scanned_pdf.modification_date) = <<>>

(***************************************************************************)
(* Claims about parse_pdf_date on matching input (SpecDate).               *)
(***************************************************************************)
\* C20: every non-empty string that, less its D: prefix, starts with the
\* four digits of a year parses to a timestamp with a timezone, whichever
\* of month, day, time and timezone it leaves out.
C20_TotalOnMatchingInput ==
    (DateParsed /\ pdf_date # <<>> /\ ~PatternFails(pdf_date)) =>
        dateResult.kind = "datetime"

(***************************************************************************)
(* Claims about the workers' output files (SpecBatch).                     *)
(***************************************************************************)
\* C21: whatever the interleaving, two writes to one output file come from
\* workers of the same input path: documents with distinct paths, even of
\* the same stem in different directories, never write the same file.
C21_OwnOutputFile ==
    \A k \in 1..Len(outputs) :
        \A l \in 1..Len(outputs) :
            pdf_files[outputs[k].by].path # pdf_files[outputs[l].by].path
                => outputs[k].file # outputs[l].file

(***************************************************************************)
(* Claims about characters under several rectangles (SpecMasked).          *)
(***************************************************************************)
\* what the rectangles k..upto capture, rectangle by rectangle
RECURSIVE CapturedUpTo(_, _, _, _)
CapturedUpTo(chars, rects, k, upto) ==
    IF k > upto THEN <<>>
    ELSE CapturedBy(chars, rects[k]) \o CapturedUpTo(chars, rects, k + 1, upto)

\* how often a text stands in a sequence of texts
Occurrences(texts, t) == Cardinality({n \in 1..Len(texts) : texts[n] = t})

\* the pairs of a scanned filled dark rectangle and a character with text t
\* that lies inside it
Containments(chars, rects, upto, t) ==
    {<<k, j>> \in (1..upto) \X (1..Len(chars)) :
        /\ rects[k].fill = "True"
        /\ ChannelsDark(rects[k].non_stroking_color)
        /\ chars[j].text = t
        /\ RoundedInside(chars[j], rects[k])}

\* C22: the text captured on a page so far, artifacts and buffer together,
\* is the concatenation, rectangle by rectangle in document order, of the
\* characters each scanned filled dark rectangle contains: a character
\* stands in it once for every such rectangle it lies in.
C22_NoDeduplication ==
    mpc \in {"rects", "page_done"} =>
        LET captured == Flatten(TextsOf(mGen.yielded)) \o mGen.captured_text
        IN  /\ captured
                  = CapturedUpTo(mPage.chars, mPage.rects, 1, mRectIdx)
            /\ \A j \in 1..Len(mPage.chars) :
                  Occurrences(captured, mPage.chars[j].text)
                      = Cardinality(Containments(mPage.chars, mPage.rects,
                                                 mRectIdx,
                                                 mPage.chars[j].text))

\* one character under two filled dark rectangles of one band: the band's
\* artifact holds it twice
C22_Witness ==
    /\ mpc = "page_done"
    /\ Len(mPage.chars) = 1
    /\ Len(mPage.rects) = 2
    /\ NearestInt(mPage.rects[1].y0) = NearestInt(mPage.rects[2].y0)
    /\ Cardinality(Containments(mPage.chars, mPage.rects, 2,
                                mPage.chars[1].text)) = 2
    /\ Len(mGen.yielded) = 1
    /\ mGen.yielded[1].text = <<mPage.chars[1].text, mPage.chars[1].text>>

(***************************************************************************)
(* Claims about the order of the batch's result (SpecBatch).               *)
(***************************************************************************)
\* the positions of the batch whose task returned a record, in input order
RECURSIVE ReturnedPositions(_)
ReturnedPositions(i) ==
    IF i > Len(pdf_files) THEN <<>>
    ELSE (IF workers[i].pc = "returned" THEN <<i>> ELSE <<>>)
         \o ReturnedPositions(i + 1)

\* C23: whatever order the tasks finished in, the list process_all_pdfs
\* returns holds the records of the tasks that returned one, in the order of
\* their paths in the input list, and nothing for a task that failed.
C23_InputOrder ==
    results.kind = "returned" =>
        LET returned == ReturnedPositions(1)
        IN  /\ Len(results.list) = Len(returned)
            /\ \A k \in 1..Len(returned) :
                  /\ results.list[k].path = pdf_files[returned[k]].path
                  /\ results.list[k] = workers[returned[k]].scanned_pdf

\* two documents of different paths, the second finished before the first:
\* the list holds the first document's record, then the second's
C23_Witness ==
    /\ results.kind = "returned"
    /\ Len(pdf_files) = 2
    /\ pdf_files[1].path # pdf_files[2].path
    /\ workers[1].pc = "returned"
    /\ workers[2].pc = "returned"
    /\ workers[2].done_at < workers[1].done_at
    /\ PathsOf(results.list) = <<pdf_files[1].path, pdf_files[2].path>>

=============================================================================
